---------------------------- MODULE Spec2Model ----------------------------
(***************************************************************************)
(* A model of compiler.py: the Lexer, the fused parser/evaluator           *)
(* (Interpreter) and the read-eval-print loop of main, together with the   *)
(* Python value semantics the interpreter relies on (arbitrary-precision   *)
(* integers, true division through a double, str/bool/None operands).      *)
(***************************************************************************)
EXTENDS Integers, Sequences, FiniteSets, TLC

(***************************************************************************)
(* PYTHON INTEGERS.  A Python int has no width, so it is kept as a sign    *)
(* and a magnitude; the magnitude is a sequence of digits in base 2^15     *)
(* (CPython's own digit size on 32-bit builds), least significant first,   *)
(* without leading zero digits (zero is the empty sequence).               *)
(***************************************************************************)

\* PyLong_SHIFT: binary digits per digit of a magnitude
DigitBits == 15

Base == 2^DigitBits

RECURSIVE Norm(_)
Norm(a) ==
    IF a = <<>> THEN <<>>
    ELSE IF a[Len(a)] = 0 THEN Norm(SubSeq(a, 1, Len(a) - 1))
    ELSE a

RECURSIVE NatMag(_)
NatMag(n) ==
    IF n = 0 THEN <<>> ELSE <<n % Base>> \o NatMag(n \div Base)

RECURSIVE MagCmpFrom(_, _, _)
MagCmpFrom(a, b, i) ==
    IF i = 0 THEN 0
    ELSE IF a[i] > b[i] THEN 1
    ELSE IF a[i] < b[i] THEN -1
    ELSE MagCmpFrom(a, b, i - 1)

\* -1, 0 or 1 as a < b, a = b, a > b
MagCmp(a, b) ==
    IF Len(a) > Len(b) THEN 1
    ELSE IF Len(a) < Len(b) THEN -1
    ELSE MagCmpFrom(a, b, Len(a))

RECURSIVE MagAddC(_, _, _)
MagAddC(a, b, c) ==
    IF a = <<>> /\ b = <<>> THEN (IF c = 0 THEN <<>> ELSE <<c>>)
    ELSE LET x == IF a = <<>> THEN 0 ELSE a[1]
             y == IF b = <<>> THEN 0 ELSE b[1]
             s == x + y + c
         IN  <<s % Base>> \o MagAddC(IF a = <<>> THEN <<>> ELSE Tail(a),
                                     IF b = <<>> THEN <<>> ELSE Tail(b),
                                     s \div Base)

MagAdd(a, b) == MagAddC(a, b, 0)

RECURSIVE MagSubB(_, _, _)
MagSubB(a, b, w) ==
    IF a = <<>> THEN <<>>
    ELSE LET y == IF b = <<>> THEN 0 ELSE b[1]
             d == a[1] - y - w
         IN  <<IF d < 0 THEN d + Base ELSE d>>
                 \o MagSubB(Tail(a),
                            IF b = <<>> THEN <<>> ELSE Tail(b),
                            IF d < 0 THEN 1 ELSE 0)

\* a - b for magnitudes with a >= b
MagSub(a, b) == Norm(MagSubB(a, b, 0))

\* a times one digit d, plus the carry c
RECURSIVE MagMulDigit(_, _, _)
MagMulDigit(a, d, c) ==
    IF a = <<>> THEN (IF c = 0 THEN <<>> ELSE <<c>>)
    ELSE LET p == a[1] * d + c
         IN  <<p % Base>> \o MagMulDigit(Tail(a), d, p \div Base)

Zeros(k) == [i \in 1..k |-> 0]

RECURSIVE MagMul(_, _)
MagMul(a, b) ==
    IF a = <<>> \/ b = <<>> THEN <<>>
    ELSE LET rest == MagMul(Tail(a), b)
         IN  MagAdd(Norm(MagMulDigit(b, a[1], 0)),
                    IF rest = <<>> THEN <<>> ELSE <<0>> \o rest)

\* number of binary digits of a natural n < Base
RECURSIVE DigitLen(_)
DigitLen(n) == IF n = 0 THEN 0 ELSE 1 + DigitLen(n \div 2)

\* number of binary digits of a magnitude (int.bit_length)
BitLen(a) ==
    IF a = <<>> THEN 0 ELSE DigitBits * (Len(a) - 1) + DigitLen(a[Len(a)])

\* a * 2^k
ShiftL(a, k) ==
    IF a = <<>> THEN <<>>
    ELSE Zeros(k \div DigitBits) \o Norm(MagMulDigit(a, 2^(k % DigitBits), 0))

\* a divided by one digit d # 0, most significant digit first, with the
\* remainder r carried down: the digits of the quotient
RECURSIVE MagDivDigitFrom(_, _, _, _)
MagDivDigitFrom(a, d, i, r) ==
    IF i = 0 THEN <<>>
    ELSE LET x == r * Base + a[i]
         IN  MagDivDigitFrom(a, d, i - 1, x % d) \o <<x \div d>>

\* floor(a / 2^k)
ShiftR(a, k) ==
    IF k \div DigitBits >= Len(a) THEN <<>>
    ELSE LET hi == SubSeq(a, k \div DigitBits + 1, Len(a))
         IN  Norm(MagDivDigitFrom(hi, 2^(k % DigitBits), Len(hi), 0))

\* the largest digit q with q * m <= r, for r < m * Base, found one binary
\* digit at a time from the top (i is the place of the digit being tried)
RECURSIVE QuotDigit(_, _, _, _)
QuotDigit(r, m, q, i) ==
    IF i < 0 THEN q
    ELSE LET t == q + 2^i
         IN  IF MagCmp(Norm(MagMulDigit(m, t, 0)), r) <= 0
             THEN QuotDigit(r, m, t, i - 1)
             ELSE QuotDigit(r, m, q, i - 1)

\* Schoolbook long division, most significant digit of n first:
\* the pair <<n div m, n mod m>> for m # 0.  r2 is the remainder so far
\* with the next digit of n brought down, d the digit of the quotient.
RECURSIVE MagDivModFrom(_, _, _, _, _)
DivDigit(n, m, i, q, r2, d) ==
    MagDivModFrom(n, m, i - 1, <<d>> \o q, MagSub(r2, Norm(MagMulDigit(m, d, 0))))

DivBring(n, m, i, q, r2) ==
    DivDigit(n, m, i, q, r2, QuotDigit(r2, m, 0, DigitBits - 1))

MagDivModFrom(n, m, i, q, r) ==
    IF i = 0 THEN <<Norm(q), r>>
    ELSE DivBring(n, m, i, q, Norm(<<n[i]>> \o r))

MagDivMod(n, m) == MagDivModFrom(n, m, Len(n), <<>>, <<>>)

MkInt(neg, mag) == [neg |-> neg /\ mag # <<>>, mag |-> mag]

\* the Python int of a small model integer
I(n) == IF n < 0 THEN MkInt(TRUE, NatMag(-n)) ELSE MkInt(FALSE, NatMag(n))

IntNeg(a) == MkInt(~a.neg, a.mag)

IntAdd(a, b) ==
    IF a.neg = b.neg THEN MkInt(a.neg, MagAdd(a.mag, b.mag))
    ELSE IF MagCmp(a.mag, b.mag) >= 0 THEN MkInt(a.neg, MagSub(a.mag, b.mag))
    ELSE MkInt(b.neg, MagSub(b.mag, a.mag))

IntSub(a, b) == IntAdd(a, IntNeg(b))

IntMul(a, b) == MkInt(a.neg # b.neg, MagMul(a.mag, b.mag))

\* -1, 0 or 1 as a < b, a = b, a > b
IntCmp(a, b) ==
    IF a.neg /\ ~b.neg THEN -1
    ELSE IF ~a.neg /\ b.neg THEN 1
    ELSE IF a.neg THEN MagCmp(b.mag, a.mag)
    ELSE MagCmp(a.mag, b.mag)

(***************************************************************************)
(* int(a / b), line 244.  Python's int / int is the true quotient rounded  *)
(* to the nearest double (ties to even, MantBits significant binary        *)
(* digits); int() then drops the fraction of that double.  The quotient is *)
(* scaled by 2^s so that its integer part Q has MantBits + 2 or            *)
(* MantBits + 3 binary digits; the e digits of Q below the mantissa and    *)
(* the remainder R decide the rounding, and the double is M * 2^t.         *)
(***************************************************************************)

\* DBL_MANT_DIG of the C double behind a Python float
MantBits == 53

\* DBL_MAX_EXP: a quotient of 2^MaxExp or more does not fit a double
MaxExp == 1024

\* the double M * 2^t as an int: ovf when it does not fit a double
Truncated(M, t) ==
    IF BitLen(M) + t > MaxExp THEN [ovf |-> TRUE, mag |-> <<>>]
    ELSE IF t >= 0 THEN [ovf |-> FALSE, mag |-> ShiftL(M, t)]
    ELSE [ovf |-> FALSE, mag |-> ShiftR(M, -t)]

\* the mantissa M0 rounded to nearest, ties to even: c compares the digits
\* dropped from Q with half a unit of M0, R is the remainder of the division
Rounded(M0, c, R, t) ==
    IF c > 0 \/ (c = 0 /\ (R # <<>> \/ M0[1] % 2 = 1))
    THEN Truncated(MagAdd(M0, <<1>>), t)
    ELSE Truncated(M0, t)

Mantissa(Q, R, M0, e, s) ==
    Rounded(M0, MagCmp(MagSub(Q, ShiftL(M0, e)), ShiftL(<<1>>, e - 1)), R, e - s)

Scaled(Q, R, e, s) == Mantissa(Q, R, ShiftR(Q, e), e, s)

Quotient(qr, s) == Scaled(qr[1], qr[2], BitLen(qr[1]) - MantBits, s)

Scale(a, b, s) ==
    IF s >= 0 THEN Quotient(MagDivMod(ShiftL(a, s), b), s)
    ELSE Quotient(MagDivMod(a, ShiftL(b, -s)), s)

\* magnitude of int(a / b) for magnitudes a # 0 and b # 0
MagTrueDivTrunc(a, b) == Scale(a, b, MantBits + 2 - (BitLen(a) - BitLen(b)))

Signed(neg, q) ==
    IF q.ovf THEN [ok |-> FALSE, err |-> "OverflowError"]
    ELSE [ok |-> TRUE, val |-> MkInt(neg, q.mag)]

\* int(a / b) on Python ints: [ok, err, val]
IntTrueDivTrunc(a, b) ==
    IF b.mag = <<>> THEN [ok |-> FALSE, err |-> "ZeroDivisionError"]
    ELSE IF a.mag = <<>> THEN [ok |-> TRUE, val |-> I(0)]
    ELSE Signed(a.neg # b.neg, MagTrueDivTrunc(a.mag, b.mag))

(***************************************************************************)
(* PYTHON VALUES.  The interpreter computes on whatever Python objects    *)
(* reach it: int (token values, arithmetic), str (string literals), bool   *)
(* (results of comparisons) and None (an if without else whose condition   *)
(* is false).  A str is a sequence of one-character strings.               *)
(***************************************************************************)

None == [t |-> "NoneType", v |-> <<>>]

IntV(i) == [t |-> "int", v |-> i]

StrV(s) == [t |-> "str", v |-> s]

BoolV(b) == [t |-> "bool", v |-> b]

\* bool is a subclass of int: True and False compute as 1 and 0
IsNum(x) == x.t \in {"int", "bool"}

AsInt(x) == IF x.t = "bool" THEN (IF x.v THEN I(1) ELSE I(0)) ELSE x.v

\* the outcome of an operation: a value, or the exception it raises
Return(v) == [ok |-> TRUE, val |-> v, err |-> "none"]

Throw(e) == [ok |-> FALSE, val |-> None, err |-> e]

\* the characters of the model, in code point order
CodePoints ==
    <<" ", "!", "\"", "$", "(", ")", "*", "+", "-", "/",
      "0", "1", "2", "3", "4", "5", "6", "7", "8", "9",
      "<", "=", ">",
      "a", "b", "e", "f", "h", "i", "l", "n", "s", "t", "x", "y">>

Chars == {CodePoints[i] : i \in 1..Len(CodePoints)}

ord(c) == CHOOSE i \in 1..Len(CodePoints) : CodePoints[i] = c

\* str < str: by the first differing character, a proper prefix first
RECURSIVE StrLess(_, _)
StrLess(a, b) ==
    IF b = <<>> THEN FALSE
    ELSE IF a = <<>> THEN TRUE
    ELSE IF a[1] # b[1] THEN ord(a[1]) < ord(b[1])
    ELSE StrLess(Tail(a), Tail(b))

RECURSIVE StrTimes(_, _)
StrTimes(s, n) == IF n <= 0 THEN <<>> ELSE s \o StrTimes(s, n - 1)

\* str * int: the count of repetitions; a count of more than one digit
\* asks for more memory than the model has
StrRepeat(s, n) ==
    IF n.neg \/ n.mag = <<>> \/ s = <<>> THEN Return(StrV(<<>>))
    ELSE IF Len(n.mag) > 1 THEN Throw("MemoryError")
    ELSE Return(StrV(StrTimes(s, n.mag[1])))

\* l + r, line 254
PyAdd(l, r) ==
    IF IsNum(l) /\ IsNum(r) THEN Return(IntV(IntAdd(AsInt(l), AsInt(r))))
    ELSE IF l.t = "str" /\ r.t = "str" THEN Return(StrV(l.v \o r.v))
    ELSE Throw("TypeError")

\* l - r, line 257
PySub(l, r) ==
    IF IsNum(l) /\ IsNum(r) THEN Return(IntV(IntSub(AsInt(l), AsInt(r))))
    ELSE Throw("TypeError")

\* l * r, line 241
PyMul(l, r) ==
    IF IsNum(l) /\ IsNum(r) THEN Return(IntV(IntMul(AsInt(l), AsInt(r))))
    ELSE IF l.t = "str" /\ IsNum(r) THEN StrRepeat(l.v, AsInt(r))
    ELSE IF IsNum(l) /\ r.t = "str" THEN StrRepeat(r.v, AsInt(l))
    ELSE Throw("TypeError")

Float2Int(q) == IF q.ok THEN Return(IntV(q.val)) ELSE Throw(q.err)

\* int(l / r), line 244
PyDiv(l, r) ==
    IF IsNum(l) /\ IsNum(r) THEN Float2Int(IntTrueDivTrunc(AsInt(l), AsInt(r)))
    ELSE Throw("TypeError")

\* l == r, line 267: never raises; objects of unrelated types are unequal
PyEq(l, r) ==
    IF IsNum(l) /\ IsNum(r) THEN IntCmp(AsInt(l), AsInt(r)) = 0
    ELSE IF l.t = r.t THEN l.v = r.v
    ELSE FALSE

\* l < r, line 273
PyLt(l, r) ==
    IF IsNum(l) /\ IsNum(r) THEN Return(BoolV(IntCmp(AsInt(l), AsInt(r)) < 0))
    ELSE IF l.t = "str" /\ r.t = "str" THEN Return(BoolV(StrLess(l.v, r.v)))
    ELSE Throw("TypeError")

\* l > r, line 276
PyGt(l, r) ==
    IF IsNum(l) /\ IsNum(r) THEN Return(BoolV(IntCmp(AsInt(l), AsInt(r)) > 0))
    ELSE IF l.t = "str" /\ r.t = "str" THEN Return(BoolV(StrLess(r.v, l.v)))
    ELSE Throw("TypeError")

\* the truth value of an object, as `if condition:` takes it (lines 309, 315)
Truthy(x) ==
    IF x.t = "bool" THEN x.v
    ELSE IF x.t = "int" THEN x.v.mag # <<>>
    ELSE IF x.t = "str" THEN x.v # <<>>
    ELSE FALSE

(***************************************************************************)
(* TOKENS, lines 3-30                                                      *)
(***************************************************************************)

Token(type, value) == [type |-> type, value |-> value]

\* str.isspace, str.isdigit, str.isalpha, str.isalnum on the model's characters
isspace(c) == c = " "

isdigit(c) == c \in {"0", "1", "2", "3", "4", "5", "6", "7", "8", "9"}

isalpha(c) == c \in {"a", "b", "e", "f", "h", "i", "l", "n", "s", "t", "x", "y"}

isalnum(c) == isalpha(c) \/ isdigit(c)

\* a str of the source, written out
kw_if == <<"i", "f">>

kw_then == <<"t", "h", "e", "n">>

kw_else == <<"e", "l", "s", "e">>

(***************************************************************************)
(* LEXER, lines 33-179.  A Lexer object is the record of its fields; tokens*)
(* is the local list of get_all_tokens and err the exception, if any, that *)
(* left the lexer.  pos counts from 0 as in the source; NoChar is the None *)
(* that current_char holds past the end of the text.                       *)
(***************************************************************************)

NoChar == "None"

\* Lexer.__init__, lines 34-43: text[0] of an empty text raises IndexError
Lexer(text) ==
    IF text = <<>>
    THEN [text |-> text, pos |-> 0, current_char |-> NoChar,
          tokens |-> <<>>, err |-> "IndexError"]
    ELSE [text |-> text, pos |-> 0, current_char |-> text[1],
          tokens |-> <<>>, err |-> "none"]

\* RESERVED_KEYWORDS.get(result, Token(ID, result)), lines 39-43 and 93
RESERVED_KEYWORDS(result) ==
    IF result = kw_if THEN Token("IF", StrV(kw_if))
    ELSE IF result = kw_then THEN Token("THEN", StrV(kw_then))
    ELSE IF result = kw_else THEN Token("ELSE", StrV(kw_else))
    ELSE Token("ID", StrV(result))

\* Lexer.error, lines 45-46
Lexer_error(lx) == [lx EXCEPT !.err = "InvalidCharacter"]

\* Lexer.advance, lines 48-54
advance(lx) ==
    LET p == lx.pos + 1
    IN  [lx EXCEPT !.pos = p,
                   !.current_char = IF p > Len(lx.text) - 1 THEN NoChar
                                    ELSE lx.text[p + 1]]

\* Lexer.peek, lines 56-61
Lexer_peek(lx) ==
    LET peek_pos == lx.pos + 1
    IN  IF peek_pos > Len(lx.text) - 1 THEN NoChar ELSE lx.text[peek_pos + 1]

\* Lexer.skip_whitespace, lines 63-65
RECURSIVE skip_whitespace(_)
skip_whitespace(lx) ==
    IF lx.current_char # NoChar /\ isspace(lx.current_char)
    THEN skip_whitespace(advance(lx))
    ELSE lx

\* int(result) of a run of decimal digits, line 73
RECURSIVE int_of(_, _)
int_of(result, acc) ==
    IF result = <<>> THEN acc
    ELSE int_of(Tail(result),
                Norm(MagMulDigit(acc, 10, ord(result[1]) - ord("0"))))

\* Lexer.integer, lines 67-73: the lexer after the digits, and the int
RECURSIVE integer_loop(_, _)
integer_loop(lx, result) ==
    IF lx.current_char # NoChar /\ isdigit(lx.current_char)
    THEN integer_loop(advance(lx), Append(result, lx.current_char))
    ELSE [lx |-> lx, ret |-> IntV(MkInt(FALSE, int_of(result, <<>>)))]

integer(lx) == integer_loop(lx, <<>>)

\* Lexer.string, lines 75-83: a closing quote is skipped whether or not
\* there is one
RECURSIVE string_loop(_, _)
string_loop(lx, result) ==
    IF lx.current_char # NoChar /\ lx.current_char # "\""
    THEN string_loop(advance(lx), Append(result, lx.current_char))
    ELSE [lx |-> advance(lx), ret |-> StrV(result)]

string(lx) == string_loop(advance(lx), <<>>)

\* Lexer._id, lines 85-94
RECURSIVE id_loop(_, _)
id_loop(lx, result) ==
    IF lx.current_char # NoChar /\ isalnum(lx.current_char)
    THEN id_loop(advance(lx), Append(result, lx.current_char))
    ELSE [lx |-> lx, ret |-> RESERVED_KEYWORDS(result)]

id(lx) == id_loop(lx, <<>>)

emit(lx, tok) == [lx EXCEPT !.tokens = Append(lx.tokens, tok)]

\* the one-character tokens of lines 136-174
Punctuation ==
    [c \in {"<", ">", "+", "-", "*", "/", "(", ")"} |->
        CASE c = "<" -> "LT"
          [] c = ">" -> "GT"
          [] c = "+" -> "PLUS"
          [] c = "-" -> "MINUS"
          [] c = "*" -> "MUL"
          [] c = "/" -> "DIV"
          [] c = "(" -> "LPAREN"
          [] c = ")" -> "RPAREN"]

\* one turn of the while loop of get_all_tokens, lines 100-176, for a
\* lexer whose current_char is not None
scan(lx) ==
    LET c == lx.current_char
    IN  IF isspace(c) THEN skip_whitespace(lx)
        ELSE IF isdigit(c)
             THEN LET r == integer(lx) IN emit(r.lx, Token("INTEGER", r.ret))
        ELSE IF c = "\""
             THEN LET r == string(lx) IN emit(r.lx, Token("STRING", r.ret))
        ELSE IF isalpha(c)
             THEN LET r == id(lx) IN emit(r.lx, r.ret)
        ELSE IF c = "="
             THEN IF Lexer_peek(lx) = "="
                  THEN emit(advance(advance(lx)), Token("EQ", StrV(<<"=", "=">>)))
                  ELSE emit(advance(lx), Token("ASSIGN", StrV(<<"=">>)))
        ELSE IF c = "!"
             THEN IF Lexer_peek(lx) = "="
                  THEN emit(advance(advance(lx)), Token("NEQ", StrV(<<"!", "=">>)))
                  ELSE Lexer_error(lx)
        ELSE IF c \in DOMAIN Punctuation
             THEN emit(advance(lx), Token(Punctuation[c], StrV(<<c>>)))
        ELSE Lexer_error(lx)

\* the end of get_all_tokens, lines 178-179
finish(lx) == emit(lx, Token("EOF", None))

\* Lexer.get_all_tokens, lines 96-179
RECURSIVE get_all_tokens(_)
get_all_tokens(lx) ==
    IF lx.err # "none" THEN lx
    ELSE IF lx.current_char # NoChar THEN get_all_tokens(scan(lx))
    ELSE finish(lx)

(***************************************************************************)
(* INTERPRETER, lines 182-321.  An Interpreter object is the record of its *)
(* fields.  Every method returns the interpreter it leaves behind together *)
(* with the value it returns or the exception it raises: an exception      *)
(* unwinds the call stack but undoes no store into GLOBAL_SCOPE.  commits  *)
(* is a history of the stores of line 291, in order; the code has no such  *)
(* field and nothing in the model reads it but the properties.             *)
(***************************************************************************)

\* the empty dict
EmptyScope == [n \in {} |-> None]

\* Interpreter.__init__, lines 183-187
Interpreter(tokens) ==
    [tokens |-> tokens, pos |-> 0, current_token |-> tokens[1],
     GLOBAL_SCOPE |-> EmptyScope, commits |-> <<>>]

Done(it, v) == [it |-> it, ok |-> TRUE, val |-> v, err |-> "none"]

Raise(it, e) == [it |-> it, ok |-> FALSE, val |-> None, err |-> e]

\* Interpreter.error, lines 189-190
Interpreter_error(it) == Raise(it, "InvalidSyntax")

\* Interpreter.eat, lines 192-203
eat(it, token_type) ==
    IF it.current_token.type = token_type
    THEN LET p == it.pos + 1
         IN  Done([it EXCEPT !.pos = p,
                             !.current_token = IF p < Len(it.tokens)
                                               THEN it.tokens[p + 1]
                                               ELSE it.current_token],
                  None)
    ELSE Interpreter_error(it)

\* Interpreter.peek, lines 205-209: None past the last token
Interpreter_peek(it) ==
    LET peek_pos == it.pos + 1
    IN  IF peek_pos < Len(it.tokens) THEN it.tokens[peek_pos + 1]
        ELSE Token("NoneType", None)

\* self.GLOBAL_SCOPE[var_name] = value, line 291
store(it, var_name, value) ==
    [it EXCEPT !.GLOBAL_SCOPE =
                   [n \in DOMAIN it.GLOBAL_SCOPE \cup {var_name} |->
                       IF n = var_name THEN value ELSE it.GLOBAL_SCOPE[n]],
               !.commits = Append(it.commits, <<var_name, value>>)]

\* the binary operators as the methods apply them: the interpreter after
\* the right operand, and the result or the exception of the operation
apply(it, r) == IF r.ok THEN Done(it, r.val) ELSE Raise(it, r.err)

RECURSIVE factor(_), term_loop(_, _), expr_loop(_, _)
RECURSIVE comp_expr(_), statement(_)

\* the parenthesized factor, lines 227-231: r is what comp_expr returned
paren_close(val, e) == IF ~e.ok THEN e ELSE Done(e.it, val)

paren_body(r) == IF ~r.ok THEN r ELSE paren_close(r.val, eat(r.it, "RPAREN"))

\* a parenthesis that recursed into statement instead of comp_expr
paren_statement(it) == paren_body(statement(eat(it, "LPAREN").it))

paren(it) == paren_body(comp_expr(eat(it, "LPAREN").it))

\* the variable factor, lines 220-226
variable(it, var_name) ==
    IF var_name \in DOMAIN it.GLOBAL_SCOPE
    THEN Done(eat(it, "ID").it, it.GLOBAL_SCOPE[var_name])
    ELSE Raise(eat(it, "ID").it, "NotDefined")

\* Interpreter.factor, lines 211-232
factor(it) ==
    IF it.current_token.type = "INTEGER"
    THEN Done(eat(it, "INTEGER").it, it.current_token.value)
    ELSE IF it.current_token.type = "STRING"
    THEN Done(eat(it, "STRING").it, it.current_token.value)
    ELSE IF it.current_token.type = "ID"
    THEN variable(it, it.current_token.value.v)
    ELSE IF it.current_token.type = "LPAREN" THEN paren(it)
    ELSE Interpreter_error(it)

\* the body of the while loop of term, lines 238-244: f is what factor
\* returned for the right operand, p the product or quotient
term_again(p) == IF ~p.ok THEN p ELSE term_loop(p.it, p.val)

term_mul(result, f) ==
    IF ~f.ok THEN f ELSE term_again(apply(f.it, PyMul(result, f.val)))

term_div(result, f) ==
    IF ~f.ok THEN f ELSE term_again(apply(f.it, PyDiv(result, f.val)))

\* the while loop of term, lines 237-245
term_loop(it, result) ==
    IF it.current_token.type = "MUL"
    THEN term_mul(result, factor(eat(it, "MUL").it))
    ELSE IF it.current_token.type = "DIV"
    THEN term_div(result, factor(eat(it, "DIV").it))
    ELSE Done(it, result)

term_first(f) == IF ~f.ok THEN f ELSE term_loop(f.it, f.val)

\* Interpreter.term, lines 234-245
term(it) == term_first(factor(it))

\* the body of the while loop of expr, lines 251-257: f is what term
\* returned for the right operand, p the sum or difference
expr_again(p) == IF ~p.ok THEN p ELSE expr_loop(p.it, p.val)

expr_plus(result, f) ==
    IF ~f.ok THEN f ELSE expr_again(apply(f.it, PyAdd(result, f.val)))

expr_minus(result, f) ==
    IF ~f.ok THEN f ELSE expr_again(apply(f.it, PySub(result, f.val)))

\* the while loop of expr, lines 250-258
expr_loop(it, result) ==
    IF it.current_token.type = "PLUS"
    THEN expr_plus(result, term(eat(it, "PLUS").it))
    ELSE IF it.current_token.type = "MINUS"
    THEN expr_minus(result, term(eat(it, "MINUS").it))
    ELSE Done(it, result)

expr_first(f) == IF ~f.ok THEN f ELSE expr_loop(f.it, f.val)

\* Interpreter.expr, lines 247-258
expr(it) == expr_first(term(it))

\* the comparison of comp_expr, lines 264-276, on the operands l and r
compare(type, l, r) ==
    IF type = "EQ" THEN Return(BoolV(PyEq(l, r)))
    ELSE IF type = "NEQ" THEN Return(BoolV(~PyEq(l, r)))
    ELSE IF type = "LT" THEN PyLt(l, r)
    ELSE PyGt(l, r)

comp_right(type, result, r) ==
    IF ~r.ok THEN r ELSE apply(r.it, compare(type, result, r.val))

\* lines 263-277, l being what the first expr returned: one comparison at
\* most, and whatever follows it is left unread
comp_left(l) ==
    IF ~l.ok THEN l
    ELSE IF l.it.current_token.type \in {"EQ", "NEQ", "LT", "GT"}
    THEN comp_right(l.it.current_token.type, l.val,
                    expr(eat(l.it, l.it.current_token.type).it))
    ELSE l

\* Interpreter.comp_expr, lines 260-277
comp_expr(it) == comp_left(expr(it))

\* lines 291-292: the store, once the right-hand side has returned
\* an assignment that entered the name in the scope before its right-hand
\* side was evaluated
assign_before_value(var_name, v) ==
    IF ~v.ok THEN Raise(store(v.it, var_name, None), v.err)
    ELSE Done(store(v.it, var_name, v.val), v.val)

assign(var_name, v) ==
    IF ~v.ok THEN v ELSE Done(store(v.it, var_name, v.val), v.val)

\* CASE 1 of statement, lines 286-292
assignment_statement(it) ==
    assign(it.current_token.value.v,
           statement(eat(eat(it, "ID").it, "ASSIGN").it))

\* lines 309-312: both branches have been evaluated
if_pick(condition, true_result, false_result) ==
    IF ~false_result.ok THEN false_result
    ELSE IF Truthy(condition) THEN Done(false_result.it, true_result)
    ELSE Done(false_result.it, false_result.val)

\* lines 305-317: the then branch has been evaluated
if_else(condition, true_result) ==
    IF ~true_result.ok THEN true_result
    ELSE IF true_result.it.current_token.type = "ELSE"
    THEN if_pick(condition, true_result.val,
                 statement(eat(true_result.it, "ELSE").it))
    ELSE IF Truthy(condition) THEN Done(true_result.it, true_result.val)
    ELSE Done(true_result.it, None)

\* lines 300-302
if_then(condition, t) ==
    IF ~t.ok THEN t ELSE if_else(condition, statement(t.it))

if_condition(condition) ==
    IF ~condition.ok THEN condition
    ELSE if_then(condition.val, eat(condition.it, "THEN"))

\* CASE 2 of statement, lines 295-317: the else branch, when there is one,
\* is evaluated like the then branch, before the condition is looked at
if_statement(it) == if_condition(comp_expr(eat(it, "IF").it))

\* Interpreter.statement, lines 279-321
statement(it) ==
    IF it.current_token.type = "ID"
    THEN IF Interpreter_peek(it).type = "NoneType"
         THEN Raise(it, "AttributeError")
         ELSE IF Interpreter_peek(it).type = "ASSIGN"
              THEN assignment_statement(it)
              ELSE comp_expr(it)
    ELSE IF it.current_token.type = "IF" THEN if_statement(it)
    ELSE comp_expr(it)

(***************************************************************************)
(* THE LINES OF A SESSION.  input() may return any text; the model draws   *)
(* it from the lines below, written as words that one space separates.     *)
(***************************************************************************)

RECURSIVE Line(_)
Line(words) ==
    IF words = <<>> THEN <<>>
    ELSE IF Len(words) = 1 THEN words[1]
    ELSE words[1] \o <<" ">> \o Line(Tail(words))

n0 == <<"0">>
n1 == <<"1">>
n2 == <<"2">>
n7 == <<"7">>
\* 2^53 + 1, the first int that no double holds
nBig == <<"9", "0", "0", "7", "1", "9", "9", "2", "5", "4", "7", "4", "0", "9", "9", "3">>
sa == <<"\"", "a", "\"">>
sb == <<"\"", "b", "\"">>
vx == <<"x">>
vy == <<"y">>
ASSIGN == <<"=">>
PLUS == <<"+">>
MINUS == <<"-">>
MUL == <<"*">>
DIV == <<"/">>
EQ == <<"=", "=">>
NEQ == <<"!", "=">>
LT == <<"<">>
GT == <<">">>
LPAREN == <<"(">>
RPAREN == <<")">>

Operators == {PLUS, MINUS, MUL, DIV, EQ, NEQ, LT, GT}

\* l op r
BinaryLines ==
    {<<l, op, r>> : l \in {n7, sa, vx}, op \in Operators,
                    r \in {n0, n2, sa, sb, vx}}

\* x = ..., y = ...
AssignLines ==
    { <<vx, ASSIGN, n2>>,
      <<vx, ASSIGN, n0, MINUS, n7>>,
      <<vx, ASSIGN, sa>>,
      <<vx, ASSIGN, n1, EQ, n1>>,
      <<vx, ASSIGN, kw_if, n1, GT, n2, kw_then, n1>>,
      <<vx, ASSIGN, n7, DIV, n0>>,
      <<vx, ASSIGN, vx, DIV, n0>>,
      <<vx, ASSIGN, vy, ASSIGN, n7>>,
      <<vy, ASSIGN, vx>>,
      <<vy, ASSIGN, sb>> }

\* chains of * and /, and the operands only parentheses can build
TermLines ==
    { <<n7, DIV, n2, DIV, n2>>,
      <<n7, MUL, n2, DIV, n7>>,
      <<n7, DIV, n2, MUL, n2>>,
      <<n2, PLUS, n7, DIV, n2>>,
      <<nBig, DIV, n1>>,
      <<LPAREN, n0, MINUS, n7, RPAREN, DIV, n2>>,
      <<n7, DIV, LPAREN, n0, MINUS, n2, RPAREN>>,
      <<LPAREN, n1, PLUS, n2, RPAREN, MUL, n7>> }

\* what a parenthesis may hold
ParenBodies ==
    { <<n7>>, <<vx>>, <<n1, PLUS, n2>>, <<n1, EQ, n1>>, <<sa, LT, vx>>,
      <<vx, DIV, n0>>, <<LPAREN, n2, RPAREN>>,
      <<kw_if, n1, EQ, n1, kw_then, n1, kw_else, n2>>,
      <<kw_if, n1, GT, n2, kw_then, n1>>,
      <<vx, ASSIGN, n1>>, <<vy, ASSIGN, vx>> }

ParenLines == {<<LPAREN>> \o b \o <<RPAREN>> : b \in ParenBodies}

\* a statement and more
TrailingLines ==
    { <<n1, n2>>, <<n1, EQ, n1, EQ, n2>>, <<n2, RPAREN>>,
      <<vx, ASSIGN, n1, n2>>, <<n1, LT, n2, LT, vx>> }

Conditions == {<<n1, EQ, n1>>, <<n1, GT, n2>>, <<vx>>}

Branches == {<<n1>>, <<vx, ASSIGN, n1>>, <<vy, ASSIGN, n2>>, <<vy>>, <<n1, DIV, n0>>}

IfLines ==
    {<<kw_if>> \o c \o <<kw_then>> \o a : c \in Conditions, a \in Branches}
    \cup
    {<<kw_if>> \o c \o <<kw_then>> \o a \o <<kw_else>> \o b :
        c \in Conditions, a \in Branches, b \in Branches}

\* lines no statement matches, or that the lexer rejects
BrokenLines ==
    { <<>>, <<<<"$">>>>, <<n1, <<"!">>, n2>>, <<n7, MINUS>>, <<kw_if>>,
      <<kw_if, n1, n2>>, <<vx, ASSIGN>>, <<<<"\"", "a">>>>, <<LPAREN, n1>> }

\* a line of spaces only, and the other lines as texts
Lines ==
    {<<" ">>} \cup
    {Line(w) : w \in BinaryLines \cup AssignLines \cup TermLines \cup ParenLines
                     \cup TrailingLines \cup IfLines \cup BrokenLines}

(***************************************************************************)
(* THE SESSION: main, lines 324-352.  pc is the place in the loop; text,   *)
(* lexer, interpreter and result are the locals of the turn in progress    *)
(* (they keep the last turn's values until the next line is read), before  *)
(* is global_scope as the turn found it, and commits the history of all    *)
(* stores of the session.                                                  *)
(***************************************************************************)

VARIABLES pc, global_scope, text, lexer, interpreter, result, before,
          commits, turns

vars == <<pc, global_scope, text, lexer, interpreter, result, before,
          commits, turns>>

\* the most lines a session of the model reads
MaxLines == 2

NoLexer == Lexer(<<" ">>)

NoInterpreter == Interpreter(<<Token("EOF", None)>>)

NoResult == [ok |-> TRUE, val |-> None, err |-> "none"]

\* global_scope = {}, line 326
Init ==
    /\ pc = "input"
    /\ global_scope = EmptyScope
    /\ text = <<>>
    /\ lexer = NoLexer
    /\ interpreter = NoInterpreter
    /\ result = NoResult
    /\ before = EmptyScope
    /\ commits = <<>>
    /\ turns = 0

\* text = input('calc > '), line 330, of a line that is not empty
ReadLine ==
    /\ pc = "input"
    /\ turns < MaxLines
    /\ \E t \in Lines \ {<<>>} :
          /\ text' = t
          /\ pc' = "lex"
    /\ turns' = turns + 1
    /\ before' = global_scope
    /\ lexer' = NoLexer
    /\ interpreter' = NoInterpreter
    /\ result' = NoResult
    /\ UNCHANGED <<global_scope, commits>>

\* if not text: continue, lines 333-334
EmptyLine ==
    /\ pc = "input"
    /\ turns < MaxLines
    /\ <<>> \in Lines
    /\ text' = <<>>
    /\ turns' = turns + 1
    /\ before' = global_scope
    /\ lexer' = NoLexer
    /\ interpreter' = NoInterpreter
    /\ result' = NoResult
    /\ UNCHANGED <<pc, global_scope, commits>>

\* except EOFError: break, lines 331-332
EndOfInput ==
    /\ pc = "input"
    /\ pc' = "exit"
    /\ UNCHANGED <<global_scope, text, lexer, interpreter, result, before,
                   commits, turns>>

\* lexer = Lexer(text); tokens = lexer.get_all_tokens(), lines 337-338;
\* an exception is printed by lines 351-352 and the loop goes on
Tokenize ==
    /\ pc = "lex"
    /\ lexer' = get_all_tokens(Lexer(text))
    /\ IF lexer'.err = "none"
       THEN /\ pc' = "parse"
            /\ UNCHANGED result
       ELSE /\ pc' = "input"
            /\ result' = Throw(lexer'.err)
    /\ UNCHANGED <<global_scope, text, interpreter, before, commits, turns>>

\* lines 339-343: the interpreter is handed the session's dict itself, so
\* what statement stores is in global_scope whether statement returns or
\* raises.  The result is printed by lines 345-349, the exception by lines
\* 351-352, and the loop goes on.
run(tokens, scope) ==
    statement([Interpreter(tokens) EXCEPT !.GLOBAL_SCOPE = scope])

\* a session that kept the scope of a line only when the line succeeded
Finished_or_rolled_back(r) ==
    /\ interpreter' = r.it
    /\ result' = [ok |-> r.ok, val |-> r.val, err |-> r.err]
    /\ global_scope' = IF r.ok THEN r.it.GLOBAL_SCOPE ELSE global_scope
    /\ commits' = commits \o r.it.commits

Finished(r) ==
    /\ interpreter' = r.it
    /\ result' = [ok |-> r.ok, val |-> r.val, err |-> r.err]
    /\ global_scope' = r.it.GLOBAL_SCOPE
    /\ commits' = commits \o r.it.commits

Evaluate ==
    /\ pc = "parse"
    /\ Finished(run(lexer.tokens, global_scope))
    /\ pc' = "input"
    /\ UNCHANGED <<text, lexer, before, turns>>

Next == ReadLine \/ EmptyLine \/ EndOfInput \/ Tokenize \/ Evaluate

Spec == Init /\ [][Next]_vars

(***************************************************************************)
(* THE LEXER ON ITS OWN: Lexer(text).get_all_tokens() for any text, one    *)
(* turn of the while loop at a time.  pc is "Lexer" before the constructor *)
(* has run, "scan" inside get_all_tokens, "returned" once it has returned  *)
(* and "raised" once an exception has left it.                             *)
(***************************************************************************)

\* the longest text the lexer is given
MaxTextLen == 3

LexerChars == {" ", "1", "a", "\"", "=", "!", "+", "$"}

RECURSIVE TextsOfLen(_)
TextsOfLen(n) ==
    IF n = 0 THEN {<<>>}
    ELSE {Append(t, c) : t \in TextsOfLen(n - 1), c \in LexerChars}

Texts == UNION {TextsOfLen(n) : n \in 0..MaxTextLen}

LexerInit ==
    /\ pc = "Lexer"
    /\ text \in Texts
    /\ global_scope = EmptyScope
    /\ lexer = NoLexer
    /\ interpreter = NoInterpreter
    /\ result = NoResult
    /\ before = EmptyScope
    /\ commits = <<>>
    /\ turns = 0

\* Lexer(text), lines 34-43
Construct ==
    /\ pc = "Lexer"
    /\ lexer' = Lexer(text)
    /\ pc' = IF lexer'.err = "none" THEN "scan" ELSE "raised"
    /\ UNCHANGED <<global_scope, text, interpreter, result, before, commits, turns>>

\* one turn of the while loop, lines 100-176
Scan ==
    /\ pc = "scan"
    /\ lexer.current_char # NoChar
    /\ lexer' = scan(lexer)
    /\ pc' = IF lexer'.err = "none" THEN "scan" ELSE "raised"
    /\ UNCHANGED <<global_scope, text, interpreter, result, before, commits, turns>>

\* the loop is left, lines 178-179
ReturnTokens ==
    /\ pc = "scan"
    /\ lexer.current_char = NoChar
    /\ lexer' = finish(lexer)
    /\ pc' = "returned"
    /\ UNCHANGED <<global_scope, text, interpreter, result, before, commits, turns>>

LexerNext == Construct \/ Scan \/ ReturnTokens

LexerSpec == LexerInit /\ [][LexerNext]_vars

(***************************************************************************)
(* PROPERTIES.  The kinds of error of the specification, as sets of the    *)
(* exceptions of the code: Lexer.error is the LexError, Interpreter.error  *)
(* the SyntaxError, and the undefined variable of line 226 and Python's    *)
(* own exceptions in an operator are the RuntimeError.                     *)
(***************************************************************************)

LexError == {"InvalidCharacter"}

SyntaxError == {"InvalidSyntax"}

RuntimeError ==
    {"NotDefined", "TypeError", "ZeroDivisionError", "OverflowError", "MemoryError"}

\* the last line read has been through the lexer, and through statement
Tokenized == pc = "input" /\ turns > 0 /\ text # <<>>

Evaluated == Tokenized /\ lexer.err = "none"

Raised(E) == ~result.ok /\ result.err \in E

\* statement on the text of some words, in a scope
Eval(words, scope) == run(get_all_tokens(Lexer(Line(words))).tokens, scope)

\* the line just evaluated did what r says: the same value or exception,
\* and the same Environment
Same(r) ==
    /\ result.ok = r.ok
    /\ result.val = r.val
    /\ result.err = r.err
    /\ global_scope = r.it.GLOBAL_SCOPE

\* a token that is a literal, or a variable the scope defines, and its value
IsOperand(tok, scope) ==
    \/ tok.type \in {"INTEGER", "STRING"}
    \/ tok.type = "ID" /\ tok.value.v \in DOMAIN scope

OperandValue(tok, scope) ==
    IF tok.type = "ID" THEN scope[tok.value.v] ELSE tok.value

\* the line just evaluated is `l op r`, op one of ops, l and r operands
Binary(ops) ==
    /\ Evaluated
    /\ Len(lexer.tokens) = 4
    /\ lexer.tokens[2].type \in ops
    /\ IsOperand(lexer.tokens[1], before)
    /\ IsOperand(lexer.tokens[3], before)

Left == OperandValue(lexer.tokens[1], before)

Right == OperandValue(lexer.tokens[3], before)

\* C1: `l + r`, `l * r` and `l / r` raise RuntimeError, and yield no value,
\* when either operand is not an integer (a string, a boolean read from a
\* variable, no value).
C1_ArithmeticIsIntegerOnly ==
    Binary({"PLUS", "MUL", "DIV"}) /\ (Left.t # "int" \/ Right.t # "int")
        => Raised(RuntimeError)

\* C2: `==` and `!=` between a string and an integer raise RuntimeError,
\* `<` and `>` with a string operand raise RuntimeError, and the
\* comparisons that are allowed (integers under all four, strings under
\* `==` and `!=`) yield a boolean.
C2_ComparisonsNeverMixTypes ==
    /\ Binary({"EQ", "NEQ"}) /\ {Left.t, Right.t} = {"str", "int"}
           => Raised(RuntimeError)
    /\ Binary({"LT", "GT"}) /\ "str" \in {Left.t, Right.t}
           => Raised(RuntimeError)
    /\ Binary({"EQ", "NEQ", "LT", "GT"}) /\ Left.t = "int" /\ Right.t = "int"
           => result.ok /\ result.val.t = "bool"
    /\ Binary({"EQ", "NEQ"}) /\ Left.t = "str" /\ Right.t = "str"
           => result.ok /\ result.val.t = "bool"

\* the tokens from place k on are `a / 0` and the end of input, a an
\* integer literal or a variable that holds an integer
DivisionByZeroAt(k) ==
    /\ Len(lexer.tokens) = k + 3
    /\ IsOperand(lexer.tokens[k], before)
    /\ OperandValue(lexer.tokens[k], before).t = "int"
    /\ lexer.tokens[k + 1].type = "DIV"
    /\ lexer.tokens[k + 2] = Token("INTEGER", IntV(I(0)))

\* the line just evaluated is `a / 0` or `x = a / 0`
DividesByZero ==
    /\ Evaluated
    /\ \/ DivisionByZeroAt(1)
       \/ /\ Len(lexer.tokens) = 6
          /\ lexer.tokens[1].type = "ID"
          /\ lexer.tokens[2].type = "ASSIGN"
          /\ DivisionByZeroAt(3)

HasIf == \E i \in 1..Len(lexer.tokens) : lexer.tokens[i].type = "IF"

\* C3: for any integer a the lines `a / 0` and `x = a / 0` raise the
\* RuntimeError of a division by zero and leave the Environment as it was
\* before the line: x is neither created nor changed.  More generally a
\* line without `if` that raises that error leaves the Environment as it
\* was.
C3_DivisionByZeroLeavesEnvironment ==
    /\ DividesByZero
           => Raised({"ZeroDivisionError"}) /\ global_scope = before
    /\ Evaluated /\ ~HasIf /\ Raised({"ZeroDivisionError"})
           => global_scope = before

\* `x = x / 0` has been evaluated in a session where x held an integer
C3_Witness ==
    /\ DividesByZero
    /\ lexer.tokens[2].type = "ASSIGN"
    /\ lexer.tokens[3].type = "ID"
    /\ lexer.tokens[1].value.v \in DOMAIN before
    /\ Raised({"ZeroDivisionError"})

\* the quotient of two Python ints truncated toward zero, for b # 0
TruncatedQuotient(a, b) == MkInt(a.neg # b.neg, MagDivMod(a.mag, b.mag)[1])

\* l * r or the truncated l / r, on integers
ExactTerm(type, l, r) ==
    IF type = "MUL" THEN IntMul(l, r) ELSE TruncatedQuotient(l, r)

\* the line just evaluated is `a op b op' c`, op and op' each * or /, on
\* integer operands, and no divisor is zero
Chain ==
    /\ Evaluated
    /\ Len(lexer.tokens) = 6
    /\ \A i \in {1, 3, 5} :
          /\ IsOperand(lexer.tokens[i], before)
          /\ OperandValue(lexer.tokens[i], before).t = "int"
    /\ \A i \in {2, 4} :
          /\ lexer.tokens[i].type \in {"MUL", "DIV"}
          /\ lexer.tokens[i].type = "DIV"
                 => OperandValue(lexer.tokens[i + 1], before).v.mag # <<>>

\* C4: for all integers a and b # 0, `a / b` yields the quotient truncated
\* toward zero, and `/` associates to the left with the precedence of `*`.
C4_DivisionTruncatesTowardZero ==
    /\ Binary({"DIV"}) /\ Left.t = "int" /\ Right.t = "int"
                       /\ Right.v.mag # <<>>
           => result.ok /\ result.val = IntV(TruncatedQuotient(Left.v, Right.v))
    /\ Chain
           => /\ result.ok
              /\ result.val =
                    IntV(ExactTerm(lexer.tokens[4].type,
                                   ExactTerm(lexer.tokens[2].type, Left.v, Right.v),
                                   OperandValue(lexer.tokens[5], before).v))

\* the place in the history of the last store to the name
LastCommit(name) ==
    CHOOSE i \in 1..Len(commits) :
        /\ commits[i][1] = name
        /\ \A j \in (i + 1)..Len(commits) : commits[j][1] # name

\* C5: the Environment holds exactly the names that have been assigned,
\* each with the value of the most recent store to it; a line that reads x
\* yields that value; a line that fails leaves every earlier variable in
\* place, with its value unless the line itself stored to it, and what the
\* line stored before it failed stays stored.
C5_EnvironmentIsLastCommitted ==
    /\ DOMAIN global_scope = {commits[i][1] : i \in 1..Len(commits)}
    /\ \A n \in DOMAIN global_scope : global_scope[n] = commits[LastCommit(n)][2]
    /\ Evaluated /\ Len(lexer.tokens) = 2 /\ IsOperand(lexer.tokens[1], before)
           => /\ result.ok
              /\ result.val = Left
              /\ global_scope = before
    /\ Tokenized /\ ~result.ok
           => /\ \A n \in DOMAIN before :
                    /\ n \in DOMAIN global_scope
                    /\ (\A i \in 1..Len(interpreter.commits) :
                            interpreter.commits[i][1] # n)
                           => global_scope[n] = before[n]
              /\ \A i \in 1..Len(interpreter.commits) :
                    interpreter.commits[i][1] \in DOMAIN global_scope

\* a line has stored to a new variable and then failed, and the variable
\* is in the Environment with the value stored
C5_Witness ==
    /\ Evaluated
    /\ ~result.ok
    /\ \E i \in 1..Len(interpreter.commits) :
          /\ interpreter.commits[i][1] \notin DOMAIN before
          /\ global_scope[interpreter.commits[i][1]] = interpreter.commits[i][2]

\* the statement b is a comparison: neither an if nor an assignment
IsComparison(b) == b[1] # kw_if /\ ~(Len(b) >= 2 /\ b[2] = ASSIGN)

\* the line just evaluated is `( b )`
Parenthesized(b) == Evaluated /\ text = Line(<<LPAREN>> \o b \o <<RPAREN>>)

\* C6 as claimed: for any statement S that evaluates to v, `( S )`
\* evaluates to v with the same effect on the Environment.
C6_ParenthesesHoldAnyStatement ==
    \A b \in ParenBodies :
        Parenthesized(b) /\ Eval(b, before).ok => Same(Eval(b, before))

\* the parenthesized comparison b does what b does, s being what b did
ParenthesizedComparison(s) ==
    /\ ~s.ok => Same(s)
    /\ s.ok /\ s.it.current_token.type = "EOF" => Same(s) /\ global_scope = before

\* C6 as the code has it: a parenthesis holds a comparison.  For a
\* comparison S that is read to its end, `( S )` yields the value or the
\* error of S and leaves the Environment as it was; `( if ... )` raises
\* SyntaxError; `( x = e )` raises the RuntimeError of an undefined x, or
\* SyntaxError when x is defined; and neither stores anything.
C6_ParenthesesHoldAComparison ==
    \A b \in ParenBodies :
        Parenthesized(b) =>
            /\ IsComparison(b) => ParenthesizedComparison(Eval(b, before))
            /\ b[1] = kw_if => Raised(SyntaxError) /\ global_scope = before
            /\ Len(b) >= 2 /\ b[2] = ASSIGN
                   => /\ global_scope = before
                      /\ IF b[1] \in DOMAIN before THEN Raised(SyntaxError)
                         ELSE Raised({"NotDefined"})

\* `( if 1 == 1 then 1 else 2 )` has been evaluated and was rejected
C6_Witness ==
    /\ Parenthesized(<<kw_if, n1, EQ, n1, kw_then, n1, kw_else, n2>>)
    /\ Eval(<<kw_if, n1, EQ, n1, kw_then, n1, kw_else, n2>>, before).ok
    /\ Raised(SyntaxError)

\* C7: a line evaluates to a value only if the statement is followed by
\* the end of input; tokens left over raise SyntaxError.
C7_WholeLineIsOneStatement ==
    Evaluated /\ result.ok => interpreter.current_token.type = "EOF"

\* the text is empty or spaces only
Blank(t) == \A i \in 1..Len(t) : t[i] = " "

\* C8: whenever the lexer is done with a text and has raised no LexError,
\* it has returned tokens of which exactly one, the last, is the end of
\* input; for an empty or blank text that is the only token, and
\* evaluating it raises SyntaxError.
C8_TokensEndWithOneEndOfInput ==
    pc \in {"returned", "raised"} /\ lexer.err \notin LexError
        => /\ pc = "returned"
           /\ Cardinality({i \in 1..Len(lexer.tokens) :
                              lexer.tokens[i].type = "EOF"}) = 1
           /\ lexer.tokens[Len(lexer.tokens)].type = "EOF"
           /\ Blank(text)
                  => /\ lexer.tokens = <<Token("EOF", None)>>
                     /\ run(lexer.tokens, EmptyScope).err \in SyntaxError

\* what `if c then a else b` is to do from the result rc of the condition:
\* the selected branch only (no branch when there is no else and c is false)
Selected(rc, a, b, else) ==
    IF ~rc.ok THEN rc
    ELSE IF Truthy(rc.val) THEN Eval(a, rc.it.GLOBAL_SCOPE)
    ELSE IF else THEN Eval(b, rc.it.GLOBAL_SCOPE)
    ELSE Done(rc.it, None)

\* C9: an if statement has the result and the effects of the selected
\* branch only; without else and with a false condition it yields no value
\* and stores nothing.
C9_IfEvaluatesSelectedBranchOnly ==
    \A c \in Conditions, a \in Branches :
        /\ Evaluated /\ text = Line(<<kw_if>> \o c \o <<kw_then>> \o a)
               => Same(Selected(Eval(c, before), a, a, FALSE))
        /\ \A b \in Branches :
               Evaluated /\ text = Line(<<kw_if>> \o c \o <<kw_then>> \o a
                                              \o <<kw_else>> \o b)
                   => Same(Selected(Eval(c, before), a, b, TRUE))

\* C10: no variable of the Environment ever holds the absent value.
C10_NoVariableHoldsNoValue ==
    \A n \in DOMAIN global_scope : global_scope[n].t # "NoneType"

=============================================================================
